---- MODULE Spec2Model ----
(***************************************************************************)
(* Model of src/pipe.py: the claim normalizer (normalize_record), the      *)
(* eligibility classifier (is_eligible_for_resubmission with its fallback  *)
(* mock_llm_classifier) and the batch driver (run_pipeline).               *)
(*                                                                         *)
(* Python strings are sequences of one-character strings, so that strip,   *)
(* lower, substring tests, date parsing and date formatting are computed   *)
(* and not assumed.  A raw field value is a record [t, s]: t is the Python *)
(* type of the value and s its text.                                       *)
(***************************************************************************)
EXTENDS Integers, Sequences, FiniteSets, TLC

(* ------------------------------------------------------------------ *)
(* Python strings                                                      *)
(* ------------------------------------------------------------------ *)

UpperChars == <<"A", "B", "C", "D", "E", "F", "G", "H", "I", "J", "K", "L", "M", "N", "O", "P", "Q", "R", "S", "T", "U", "V", "W", "X", "Y", "Z">>

LowerChars == <<"a", "b", "c", "d", "e", "f", "g", "h", "i", "j", "k", "l", "m", "n", "o", "p", "q", "r", "s", "t", "u", "v", "w", "x", "y", "z">>

DigitChars == <<"0", "1", "2", "3", "4", "5", "6", "7", "8", "9">>

\* str.strip() removes these from both ends
Whitespace == {" ", "\t", "\n"}

IsDigit(c) == \E i \in 1..10 : DigitChars[i] = c

DigitVal(c) == (CHOOSE i \in 1..10 : DigitChars[i] = c) - 1

AllDigits(s) == \A i \in 1..Len(s) : IsDigit(s[i])

RECURSIVE Num(_)
\* int() of a string of digits
Num(s) == IF s = <<>> THEN 0
          ELSE 10 * Num(SubSeq(s, 1, Len(s) - 1)) + DigitVal(s[Len(s)])

LowerChar(c) ==
    IF \E i \in 1..26 : UpperChars[i] = c
    THEN LowerChars[CHOOSE i \in 1..26 : UpperChars[i] = c]
    ELSE c

\* str.lower()
Lower(s) == [i \in 1..Len(s) |-> LowerChar(s[i])]

\* str.strip()
Strip(s) ==
    LET keep == {i \in 1..Len(s) : s[i] \notin Whitespace}
    IN  IF keep = {} THEN <<>>
        ELSE LET lo == CHOOSE i \in keep : \A j \in keep : i <= j
                 hi == CHOOSE i \in keep : \A j \in keep : j <= i
             IN  SubSeq(s, lo, hi)

\* sub in s
Contains(s, sub) ==
    \E i \in 0..(Len(s) - Len(sub)) : SubSeq(s, i + 1, i + Len(sub)) = sub

\* c in s, for one character
HasChar(s, c) == \E i \in 1..Len(s) : s[i] = c

RECURSIVE Replace(_, _, _)
\* str.replace(c, by) for a one-character c
Replace(s, c, by) ==
    IF s = <<>> THEN <<>>
    ELSE (IF Head(s) = c THEN by ELSE <<Head(s)>>) \o Replace(Tail(s), c, by)

\* the positions of character c in s
Positions(s, c) == {i \in 1..Len(s) : s[i] = c}

(* ------------------------------------------------------------------ *)
(* Python values of a raw record                                       *)
(* ------------------------------------------------------------------ *)

Unknown == <<"u", "n", "k", "n", "o", "w", "n">>

\* None
NoneVal == [t |-> "none", s |-> <<>>]

\* float('nan'): what pandas gives for an empty CSV cell
NaNVal == [t |-> "nan", s |-> <<>>]

\* the key is not in the mapping
Absent == [t |-> "absent", s |-> <<>>]

StrVal(s) == [t |-> "str", s |-> s]

\* an int, s its decimal text
IntVal(s) == [t |-> "int", s |-> s]

\* a list of two or more elements (a JSON array), s its repr
ListVal(s) == [t |-> "list", s |-> s]

\* bool(v)
Truthy(v) ==
    CASE v.t = "none" -> FALSE
      [] v.t = "str"  -> v.s # <<>>
      [] v.t = "int"  -> v.s # <<"0">>
      [] v.t = "nan"  -> TRUE
      [] v.t = "list" -> TRUE

\* a or b
PyOr(a, b) == IF Truthy(a) THEN a ELSE b

\* str(v)
Str(v) ==
    CASE v.t = "none" -> <<"N", "o", "n", "e">>
      [] v.t = "nan"  -> <<"n", "a", "n">>
      [] OTHER        -> v.s

\* pd.isna(v): a bool for a scalar, an array of bools for a list
IsNa(v) ==
    CASE v.t \in {"none", "nan"} -> "True"
      [] v.t = "list"            -> "array"
      [] OTHER                   -> "False"

Keys == {"claim_id", "id", "patient_id", "member", "procedure_code", "code",
         "denial_reason", "error_msg", "status", "submitted_at", "date"}

\* record.get(k)
Get(record, k) == IF record[k].t = "absent" THEN NoneVal ELSE record[k]

\* record.get(k, default)
GetOr(record, k, default) == IF record[k].t = "absent" THEN default ELSE record[k]

(* ------------------------------------------------------------------ *)
(* Calendar dates (datetime.date)                                      *)
(* ------------------------------------------------------------------ *)

IsLeap(y) == (y % 4 = 0) /\ ((y % 100 # 0) \/ (y % 400 = 0))

DaysInMonth(y, m) ==
    CASE m \in {4, 6, 9, 11} -> 30
      [] m = 2               -> IF IsLeap(y) THEN 29 ELSE 28
      [] OTHER               -> 31

RECURSIVE DaysBeforeMonth(_, _)
DaysBeforeMonth(y, m) ==
    IF m <= 1 THEN 0 ELSE DaysBeforeMonth(y, m - 1) + DaysInMonth(y, m - 1)

\* date.toordinal(): days since 0001-01-01, plus one
Ordinal(dt) ==
    LET y1 == dt.y - 1
    IN  y1 * 365 + (y1 \div 4) - (y1 \div 100) + (y1 \div 400)
        + DaysBeforeMonth(dt.y, dt.m) + dt.d

\* date(y, m, d) is accepted by the date constructor
ValidDate(y, m, d) ==
    /\ y \in 1..9999
    /\ m \in 1..12
    /\ d >= 1
    /\ d <= DaysInMonth(y, m)

NoDate == [ok |-> FALSE, y |-> 0, m |-> 0, d |-> 0]

MkDate(y, m, d) ==
    IF ValidDate(y, m, d) THEN [ok |-> TRUE, y |-> y, m |-> m, d |-> d] ELSE NoDate

\* a number of one or two digits, as strptime's %m and %d read it
OneOrTwoDigits(s) == Len(s) \in {1, 2} /\ AllDigits(s)

\* datetime.strptime(s, "%Y-%m-%d").date(); ok is FALSE where it raises ValueError.
\* %Y is four digits, %m is 1[0-2]|0[1-9]|[1-9], %d is 3[01]|[12]\d|0[1-9]|[1-9]| [1-9],
\* and text left over after the match is an error.
Strptime(s) ==
    LET dashes == Positions(s, "-")
    IN  IF Cardinality(dashes) # 2 \/ 5 \notin dashes THEN NoDate
        ELSE LET p2   == CHOOSE i \in dashes : i # 5
                 ys   == SubSeq(s, 1, 4)
                 ms   == SubSeq(s, 6, p2 - 1)
                 ds   == SubSeq(s, p2 + 1, Len(s))
                 dnum == IF Len(ds) = 2 /\ ds[1] = " " THEN SubSeq(ds, 2, 2) ELSE ds
             IN  IF /\ AllDigits(ys)
                    /\ OneOrTwoDigits(ms) /\ Num(ms) \in 1..12
                    /\ OneOrTwoDigits(dnum) /\ Num(dnum) \in 1..31
                    /\ (Len(ds) = 2 /\ ds[1] = " " => Num(dnum) \in 1..9)
                 THEN MkDate(Num(ys), Num(ms), Num(dnum))
                 ELSE NoDate

\* the calendar date of a strict YYYY-MM-DD text of ten characters
IsoDatePart(s) ==
    IF /\ Len(s) = 10
       /\ s[5] = "-" /\ s[8] = "-"
       /\ AllDigits(SubSeq(s, 1, 4)) /\ AllDigits(SubSeq(s, 6, 7))
       /\ AllDigits(SubSeq(s, 9, 10))
    THEN MkDate(Num(SubSeq(s, 1, 4)), Num(SubSeq(s, 6, 7)), Num(SubSeq(s, 9, 10)))
    ELSE NoDate

\* HH:MM or HH:MM:SS with every part in range
IsoClock(s) ==
    /\ Len(s) \in {5, 8}
    /\ s[3] = ":" /\ AllDigits(SubSeq(s, 1, 2)) /\ AllDigits(SubSeq(s, 4, 5))
    /\ Num(SubSeq(s, 1, 2)) < 24 /\ Num(SubSeq(s, 4, 5)) < 60
    /\ (Len(s) = 8 => /\ s[6] = ":" /\ AllDigits(SubSeq(s, 7, 8))
                      /\ Num(SubSeq(s, 7, 8)) < 60)

\* the time part of a timestamp: a clock, then an optional +HH:MM or -HH:MM offset
IsoTimePart(s) ==
    LET signs == Positions(s, "+") \cup Positions(s, "-")
    IN  IF signs = {} THEN IsoClock(s)
        ELSE LET p == CHOOSE i \in signs : \A j \in signs : i <= j
                 tz == SubSeq(s, p + 1, Len(s))
             IN  /\ IsoClock(SubSeq(s, 1, p - 1))
                 /\ Len(tz) = 5 /\ IsoClock(tz)

\* datetime.fromisoformat(s).date(); ok is FALSE where it raises ValueError.
\* The forms every CPython from 3.7 on accepts: YYYY-MM-DD, then optionally one
\* separator character and HH:MM[:SS][+HH:MM].
FromIsoformat(s) ==
    IF Len(s) = 10 THEN IsoDatePart(s)
    ELSE IF Len(s) >= 12 /\ IsoTimePart(SubSeq(s, 12, Len(s)))
         THEN IsoDatePart(SubSeq(s, 1, 10))
         ELSE NoDate

\* n in decimal, zero-padded to w digits
RECURSIVE Pad(_, _)
Pad(n, w) == IF w = 0 THEN <<>> ELSE Pad(n \div 10, w - 1) \o <<DigitChars[(n % 10) + 1]>>

\* date.isoformat()
IsoFormat(dt) == Pad(dt.y, 4) \o <<"-">> \o Pad(dt.m, 2) \o <<"-">> \o Pad(dt.d, 2)

(* ------------------------------------------------------------------ *)
(* normalize_record                                                    *)
(* ------------------------------------------------------------------ *)

\* the placeholder for "no claim was built"
NoClaim ==
    [claim_id |-> <<>>, patient_id |-> <<>>, procedure_code |-> <<>>,
     denial_reason |-> <<>>, status |-> <<>>, submitted_at |-> NoneVal,
     source_system |-> ""]

\* str(e) of the exceptions normalize_record lets out
ErrNotDict == "object has no attribute 'get'"

ErrAmbiguous == "The truth value of an array with more than one element is ambiguous"

\* the try block with an except branch that warns and keeps the raw text
NormalizeDate_KeepsRaw(submitted_at) ==
    IF submitted_at.t # "str" THEN [value |-> submitted_at, warned |-> FALSE]
    ELSE LET parsed == IF HasChar(submitted_at.s, "T")
                       THEN FromIsoformat(Replace(submitted_at.s, "Z", <<"+", "0", "0", ":", "0", "0">>))
                       ELSE Strptime(submitted_at.s)
         IN  IF parsed.ok
             THEN [value |-> StrVal(IsoFormat(parsed)), warned |-> FALSE]
             ELSE [value |-> submitted_at, warned |-> TRUE]

\* The try block of normalize_record: parse a string date and re-emit it as
\* YYYY-MM-DD; a ValueError nulls the date and logs one warning; a value that
\* is not a string is left as it is.
NormalizeDate(submitted_at) ==
    IF submitted_at.t # "str" THEN [value |-> submitted_at, warned |-> FALSE]
    ELSE LET parsed == IF HasChar(submitted_at.s, "T")
                       THEN FromIsoformat(Replace(submitted_at.s, "Z", <<"+", "0", "0", ":", "0", "0">>))
                       ELSE Strptime(submitted_at.s)
         IN  IF parsed.ok
             THEN [value |-> StrVal(IsoFormat(parsed)), warned |-> FALSE]
             ELSE [value |-> NoneVal, warned |-> TRUE]

\* the outcome of a call that raised
Raised(msg) == [raised |-> TRUE, error |-> msg, claim |-> NoClaim, warnings |-> <<>>]

\* normalize_record(record, source_system).  record is [dict, f]: dict says the
\* item is a mapping (a JSON item may be anything), f gives each key's value.
normalize_record(record, source_system) ==
    IF ~record.dict THEN Raised(ErrNotDict)
    ELSE
    LET r == record.f
        reason_raw == PyOr(Get(r, "denial_reason"), Get(r, "error_msg"))
        claim_id == Strip(Str(PyOr(Get(r, "claim_id"), GetOr(r, "id", StrVal(Unknown)))))
        patient_id ==
            Strip(Str(PyOr(Get(r, "patient_id"), GetOr(r, "member", StrVal(Unknown)))))
        procedure_code == Strip(Str(PyOr(Get(r, "procedure_code"), StrVal(Unknown))))
        denial_reason ==
            IF IsNa(reason_raw) = "False"
            THEN Strip(Str(PyOr(Get(r, "denial_reason"),
                                GetOr(r, "error_msg", StrVal(Unknown)))))
            ELSE Unknown
        status ==
            IF IsNa(Get(r, "status")) = "False"
            THEN Strip(Lower(Str(GetOr(r, "status", StrVal(Unknown)))))
            ELSE Unknown
        submitted_raw == PyOr(Get(r, "submitted_at"), Get(r, "date"))
        dated == NormalizeDate(submitted_raw)
    IN  IF IsNa(reason_raw) = "array" \/ IsNa(Get(r, "status")) = "array"
        THEN Raised(ErrAmbiguous)
        ELSE [raised |-> FALSE, error |-> "",
              claim |-> [claim_id |-> claim_id, patient_id |-> patient_id,
                         procedure_code |-> procedure_code,
                         denial_reason |-> denial_reason, status |-> status,
                         submitted_at |-> dated.value,
                         source_system |-> source_system],
              warnings |-> IF dated.warned
                           THEN <<[claim_id |-> claim_id, raw |-> submitted_raw.s]>>
                           ELSE <<>>]

(* ------------------------------------------------------------------ *)
(* mock_llm_classifier and is_eligible_for_resubmission                *)
(* ------------------------------------------------------------------ *)

Denied == <<"d", "e", "n", "i", "e", "d">>

ReasonNotDenied == <<"S", "t", "a", "t", "u", "s", " ", "n", "o", "t", " ", "d", "e", "n", "i", "e", "d">>

ReasonPatientNull == <<"P", "a", "t", "i", "e", "n", "t", " ", "I", "D", " ", "i", "s", " ", "n", "u", "l", "l">>

ReasonInvalidDate == <<"I", "n", "v", "a", "l", "i", "d", " ", "s", "u", "b", "m", "i", "t", "t", "e", "d", " ", "d", "a", "t", "e">>

ReasonTooRecent == <<"S", "u", "b", "m", "i", "t", "t", "e", "d", " ", "l", "e", "s", "s", " ", "t", "h", "a", "n", " ", "o", "r", " ", "e", "q", "u", "a", "l", " ", "t", "o", " ", "7", " ", "d", "a", "y", "s", " ", "a", "g", "o">>

retryable_reasons == {<<"M", "i", "s", "s", "i", "n", "g", " ", "m", "o", "d", "i", "f", "i", "e", "r">>, <<"I", "n", "c", "o", "r", "r", "e", "c", "t", " ", "N", "P", "I">>, <<"P", "r", "i", "o", "r", " ", "a", "u", "t", "h", " ", "r", "e", "q", "u", "i", "r", "e", "d">>}

non_retryable_reasons == {<<"A", "u", "t", "h", "o", "r", "i", "z", "a", "t", "i", "o", "n", " ", "e", "x", "p", "i", "r", "e", "d">>, <<"I", "n", "c", "o", "r", "r", "e", "c", "t", " ", "p", "r", "o", "v", "i", "d", "e", "r", " ", "t", "y", "p", "e">>}

IncorrectProcedure == <<"i", "n", "c", "o", "r", "r", "e", "c", "t", " ", "p", "r", "o", "c", "e", "d", "u", "r", "e">>

FormIncomplete == <<"f", "o", "r", "m", " ", "i", "n", "c", "o", "m", "p", "l", "e", "t", "e">>

NotBillable == <<"n", "o", "t", " ", "b", "i", "l", "l", "a", "b", "l", "e">>

InferredRetryable == <<"I", "n", "f", "e", "r", "r", "e", "d", " ", "r", "e", "t", "r", "y", "a", "b", "l", "e", ":", " ">>

InferredNonRetryable == <<"I", "n", "f", "e", "r", "r", "e", "d", " ", "n", "o", "n", "-", "r", "e", "t", "r", "y", "a", "b", "l", "e", ":", " ">>

\* the claim must be older than this many days
RecentDays == 7

\* date(2025, 7, 30), the default of the parameter today
DefaultToday == [ok |-> TRUE, y |-> 2025, m |-> 7, d |-> 30]

\* mock_llm_classifier with "form incomplete" tested before "incorrect procedure"
mock_llm_classifier_FormFirst(denial_reason) ==
    IF IsNa(denial_reason) = "True" THEN FALSE
    ELSE LET reason_lower == Lower(Str(denial_reason))
         IN  IF Contains(reason_lower, FormIncomplete) THEN TRUE
             ELSE IF Contains(reason_lower, IncorrectProcedure) THEN FALSE
             ELSE IF Contains(reason_lower, NotBillable) THEN FALSE
             ELSE FALSE

\* mock_llm_classifier(denial_reason): TRUE for retryable
mock_llm_classifier(denial_reason) ==
    IF IsNa(denial_reason) = "True" THEN FALSE
    ELSE LET reason_lower == Lower(Str(denial_reason))
         IN  IF Contains(reason_lower, IncorrectProcedure) THEN FALSE
             ELSE IF Contains(reason_lower, FormIncomplete) THEN TRUE
             ELSE IF Contains(reason_lower, NotBillable) THEN FALSE
             ELSE FALSE

\* str(e) of the exceptions datetime.fromisoformat lets out
ErrNotStr == "fromisoformat: argument must be str"

ErrIsoformat == "Invalid isoformat string"

Verdict(flag, reason) == [raised |-> FALSE, error |-> "", eligible |-> flag, reason |-> reason]

VerdictRaised(msg) == [raised |-> TRUE, error |-> msg, eligible |-> FALSE, reason |-> <<>>]

\* is_eligible_for_resubmission with the null-date test before the patient test
is_eligible_DateBeforePatient(record, today) ==
    IF record.status # Denied THEN Verdict(FALSE, ReasonNotDenied)
    ELSE IF record.submitted_at.t = "none" THEN Verdict(FALSE, ReasonInvalidDate)
    ELSE IF record.patient_id = Unknown THEN Verdict(FALSE, ReasonPatientNull)
    ELSE IF record.submitted_at.t # "str" THEN VerdictRaised(ErrNotStr)
    ELSE LET submitted_date == FromIsoformat(record.submitted_at.s)
         IN  IF ~submitted_date.ok THEN VerdictRaised(ErrIsoformat)
             ELSE LET days_ago == Ordinal(today) - Ordinal(submitted_date)
                      reason == record.denial_reason
                  IN  IF days_ago <= RecentDays THEN Verdict(FALSE, ReasonTooRecent)
                      ELSE IF reason \in retryable_reasons THEN Verdict(TRUE, reason)
                      ELSE IF reason \in non_retryable_reasons THEN Verdict(FALSE, reason)
                      ELSE IF mock_llm_classifier(StrVal(reason))
                           THEN Verdict(TRUE, InferredRetryable \o reason)
                           ELSE Verdict(FALSE, InferredNonRetryable \o reason)

\* is_eligible_for_resubmission(record, today)
is_eligible_for_resubmission(record, today) ==
    IF record.status # Denied THEN Verdict(FALSE, ReasonNotDenied)
    ELSE IF record.patient_id = Unknown THEN Verdict(FALSE, ReasonPatientNull)
    ELSE IF record.submitted_at.t = "none" THEN Verdict(FALSE, ReasonInvalidDate)
    ELSE IF record.submitted_at.t # "str" THEN VerdictRaised(ErrNotStr)
    ELSE LET submitted_date == FromIsoformat(record.submitted_at.s)
         IN  IF ~submitted_date.ok THEN VerdictRaised(ErrIsoformat)
             ELSE LET days_ago == Ordinal(today) - Ordinal(submitted_date)
                      reason == record.denial_reason
                  IN  IF days_ago <= RecentDays THEN Verdict(FALSE, ReasonTooRecent)
                      ELSE IF reason \in retryable_reasons THEN Verdict(TRUE, reason)
                      ELSE IF reason \in non_retryable_reasons THEN Verdict(FALSE, reason)
                      ELSE IF mock_llm_classifier(StrVal(reason))
                           THEN Verdict(TRUE, InferredRetryable \o reason)
                           ELSE Verdict(FALSE, InferredNonRetryable \o reason)

(* ------------------------------------------------------------------ *)
(* run_pipeline                                                        *)
(* ------------------------------------------------------------------ *)

\* the row run_pipeline appends to eligible
EligibleRow(claim, reason) ==
    [claim_id |-> claim.claim_id, resubmission_reason |-> reason,
     source_system |-> claim.source_system,
     recommended_changes |-> <<"R", "e", "v", "i", "e", "w", " ", "a", "n", "d", " ", "c", "o", "r", "r", "e", "c", "t", " ", "'">> \o reason \o <<"'", " ", "a", "n", "d", " ", "r", "e", "s", "u", "b", "m", "i", "t">>]

\* the row run_pipeline appends to excluded
ExcludedRow(claim, reason) ==
    [claim_id |-> claim.claim_id, exclusion_reason |-> reason,
     source_system |-> claim.source_system]

\* an except branch that logs the failure and does not keep it
RecordFailure_NotKept(failed, source, record, error) == failed

\* the except branch of the two normalization loops
RecordFailure(failed, source, record, error) ==
    Append(failed, [source |-> source, record |-> record, error |-> error])

VARIABLES
    pc,              \* where run_pipeline is: "alpha", "beta", "classify", "done", "crashed"
    alpha_rows,      \* the rows of alpha_df
    beta_list,       \* json.loads(beta_data)
    i,               \* the index of the next item of the running loop
    claims,
    failed_records,
    eligible,
    excluded,
    warnings,        \* what logging.warning was called with
    metrics,         \* the five counters logged at the end
    files,           \* the files written: name -> content
    crash,           \* str(e) of the exception that ended run_pipeline, "" if none
    u_pc,            \* the single-record run: "start", "failed", "normalized", ...
    u_record,
    u_source,
    u_today,
    u_norm,          \* what normalize_record returned
    u_verdict,       \* what is_eligible_for_resubmission returned
    u_again          \* what normalize_record returned for the normalized claim

pipe_vars == <<pc, alpha_rows, beta_list, i, claims, failed_records, eligible,
               excluded, warnings, metrics, files, crash>>

unit_vars == <<u_pc, u_record, u_source, u_today, u_norm, u_verdict, u_again>>

vars == <<pipe_vars, unit_vars>>

(* ------------------------------------------------------------------ *)
(* Inputs                                                              *)
(* ------------------------------------------------------------------ *)

\* the longest alpha and beta batches explored
MaxAlpha == 2

MaxBeta == 2

NoKeys == [k \in Keys |-> Absent]

\* a row of the alpha CSV as row.to_dict(): the six columns of the header, each
\* cell a non-empty string or an int, or NaN for an empty cell
AlphaRow(claim_id, patient_id, procedure_code, denial_reason, submitted_at, status) ==
    [dict |-> TRUE,
     f |-> [NoKeys EXCEPT !["claim_id"] = claim_id, !["patient_id"] = patient_id,
                          !["procedure_code"] = procedure_code,
                          !["denial_reason"] = denial_reason,
                          !["submitted_at"] = submitted_at, !["status"] = status]]

\* an item of the beta JSON list, with the six keys of the beta shape
BetaItem(id, member, code, error_msg, date, status) ==
    [dict |-> TRUE,
     f |-> [NoKeys EXCEPT !["id"] = id, !["member"] = member, !["code"] = code,
                          !["error_msg"] = error_msg, !["date"] = date,
                          !["status"] = status]]

\* a JSON item that is not an object
NotADict == [dict |-> FALSE, f |-> NoKeys]

AlphaRows ==
    { AlphaRow(StrVal(<<"A", "1", "2", "3">>), StrVal(<<"P", "0", "0", "1">>), IntVal(<<"9", "9", "2", "1", "3">>),
               StrVal(<<"M", "i", "s", "s", "i", "n", "g", " ", "m", "o", "d", "i", "f", "i", "e", "r">>), StrVal(<<"2", "0", "2", "5", "-", "0", "7", "-", "0", "1">>), StrVal(<<"d", "e", "n", "i", "e", "d">>)),
      AlphaRow(StrVal(<<"A", "1", "2", "5">>), NaNVal, IntVal(<<"9", "9", "2", "1", "5">>),
               StrVal(<<"A", "u", "t", "h", "o", "r", "i", "z", "a", "t", "i", "o", "n", " ", "e", "x", "p", "i", "r", "e", "d">>), StrVal(<<"2", "0", "2", "5", "-", "0", "7", "-", "0", "5">>),
               StrVal(<<"d", "e", "n", "i", "e", "d">>)),
      AlphaRow(StrVal(<<"A", "1", "2", "8">>), StrVal(<<"P", "0", "0", "5">>), IntVal(<<"9", "9", "2", "1", "3">>),
               StrVal(<<"F", "o", "r", "m", " ", "i", "n", "c", "o", "m", "p", "l", "e", "t", "e">>), StrVal(<<"0", "7", "/", "0", "1", "/", "2", "0", "2", "5">>), StrVal(<<"D", "e", "n", "i", "e", "d">>)),
      AlphaRow(StrVal(<<"A", "1", "2", "9">>), StrVal(<<"P", "0", "0", "6">>), IntVal(<<"9", "9", "2", "1", "4">>),
               StrVal(<<"I", "n", "c", "o", "r", "r", "e", "c", "t", " ", "N", "P", "I">>), NaNVal, StrVal(<<"d", "e", "n", "i", "e", "d">>)) }

BetaItems ==
    { BetaItem(StrVal(<<"B", "9", "9", "0">>), NoneVal, StrVal(<<"9", "9", "4", "0", "1">>),
               StrVal(<<"i", "n", "c", "o", "r", "r", "e", "c", "t", " ", "p", "r", "o", "c", "e", "d", "u", "r", "e">>), StrVal(<<"2", "0", "2", "5", "-", "0", "7", "-", "0", "1", "T", "0", "0", ":", "0", "0", ":", "0", "0">>),
               StrVal(<<"d", "e", "n", "i", "e", "d">>)),
      BetaItem(StrVal(<<"B", "9", "9", "1">>), StrVal(<<"P", "0", "1", "1">>), StrVal(<<"9", "9", "2", "1", "4">>),
               StrVal(<<"f", "o", "r", "m", " ", "i", "n", "c", "o", "m", "p", "l", "e", "t", "e">>), StrVal(<<"2", "0", "2", "5", "-", "0", "7", "-", "0", "9", "T", "0", "0", ":", "0", "0", ":", "0", "0", "Z">>),
               StrVal(<<"d", "e", "n", "i", "e", "d">>)),
      BetaItem(StrVal(<<"B", "9", "9", "2">>), StrVal(<<"P", "0", "1", "2">>), StrVal(<<"9", "9", "2", "1", "5">>),
               StrVal(<<"M", "i", "s", "s", "i", "n", "g", " ", "m", "o", "d", "i", "f", "i", "e", "r">>), StrVal(<<"2", "0", "2", "5", "-", "0", "7", "-", "0", "2", "T", "0", "0", ":", "0", "0", ":", "0", "0">>),
               ListVal(<<"[", "'", "d", "e", "n", "i", "e", "d", "'", ",", " ", "'", "l", "a", "t", "e", "'", "]">>)),
      NotADict }

\* the sequences over S of length at most n
SeqsUpTo(S, n) == UNION {[1..k -> S] : k \in 0..n}

\* what the single-record run starts from, and what the batch run leaves it at
UnitIdle ==
    /\ u_pc = "idle"
    /\ u_record = NotADict
    /\ u_source = ""
    /\ u_today = DefaultToday
    /\ u_norm = Raised("")
    /\ u_verdict = VerdictRaised("")
    /\ u_again = Raised("")

NoMetrics ==
    [total_processed |-> 0, from_alpha |-> 0, from_beta |-> 0, flagged |-> 0,
     excluded_count |-> 0]

\* run_pipeline(alpha_data, beta_data) after lines 126-130
Init ==
    /\ alpha_rows \in SeqsUpTo(AlphaRows, MaxAlpha)
    /\ beta_list \in SeqsUpTo(BetaItems, MaxBeta)
    /\ pc = "alpha"
    /\ i = 1
    /\ claims = <<>>
    /\ failed_records = <<>>
    /\ eligible = <<>>
    /\ excluded = <<>>
    /\ warnings = <<>>
    /\ metrics = NoMetrics
    /\ files = <<>>
    /\ crash = ""
    /\ UnitIdle

\* one iteration of a normalization loop: the try body and its except branch
NormalizeItem(item, source) ==
    LET got == normalize_record(item, source)
    IN  /\ warnings' = warnings \o got.warnings
        /\ IF got.raised
           THEN /\ failed_records' = RecordFailure(failed_records, source, item, got.error)
                /\ claims' = claims
           ELSE /\ claims' = Append(claims, got.claim)
                /\ failed_records' = failed_records

\* lines 131-139, one row
AlphaStep ==
    /\ pc = "alpha"
    /\ i <= Len(alpha_rows)
    /\ NormalizeItem(alpha_rows[i], "alpha")
    /\ i' = i + 1
    /\ UNCHANGED <<pc, alpha_rows, beta_list, eligible, excluded, metrics, files, crash>>
    /\ UNCHANGED unit_vars

\* the alpha loop ends; line 142
AlphaDone ==
    /\ pc = "alpha"
    /\ i > Len(alpha_rows)
    /\ pc' = "beta"
    /\ i' = 1
    /\ UNCHANGED <<alpha_rows, beta_list, claims, failed_records, eligible, excluded,
                   warnings, metrics, files, crash>>
    /\ UNCHANGED unit_vars

\* lines 143-149, one item
BetaStep ==
    /\ pc = "beta"
    /\ i <= Len(beta_list)
    /\ NormalizeItem(beta_list[i], "beta")
    /\ i' = i + 1
    /\ UNCHANGED <<pc, alpha_rows, beta_list, eligible, excluded, metrics, files, crash>>
    /\ UNCHANGED unit_vars

\* the beta loop ends; lines 152-153
BetaDone ==
    /\ pc = "beta"
    /\ i > Len(beta_list)
    /\ pc' = "classify"
    /\ i' = 1
    /\ UNCHANGED <<alpha_rows, beta_list, claims, failed_records, eligible, excluded,
                   warnings, metrics, files, crash>>
    /\ UNCHANGED unit_vars

\* lines 154-172, one claim; an exception of the classifier is not caught and
\* ends run_pipeline
ClassifyStep ==
    /\ pc = "classify"
    /\ i <= Len(claims)
    /\ LET claim == claims[i]
           got == is_eligible_for_resubmission(claim, DefaultToday)
       IN  IF got.raised
           THEN /\ pc' = "crashed"
                /\ crash' = got.error
                /\ UNCHANGED <<i, eligible, excluded>>
           ELSE /\ IF got.eligible
                   THEN /\ eligible' = Append(eligible, EligibleRow(claim, got.reason))
                        /\ excluded' = excluded
                   ELSE /\ excluded' = Append(excluded, ExcludedRow(claim, got.reason))
                        /\ eligible' = eligible
                /\ i' = i + 1
                /\ UNCHANGED <<pc, crash>>
    /\ UNCHANGED <<alpha_rows, beta_list, claims, failed_records, warnings, metrics, files>>
    /\ UNCHANGED unit_vars

\* the number of claims of a source
CountSource(cs, source) == Cardinality({k \in 1..Len(cs) : cs[k].source_system = source})

\* lines 175-196: the counters, the two files, the return
Finish ==
    /\ pc = "classify"
    /\ i > Len(claims)
    /\ metrics' = [total_processed |-> Len(claims),
                   from_alpha |-> CountSource(claims, "alpha"),
                   from_beta |-> CountSource(claims, "beta"),
                   flagged |-> Len(eligible),
                   excluded_count |-> Len(excluded)]
    /\ files' = <<[name |-> "resubmission_candidates.json", content |-> eligible]>>
                \o (IF failed_records # <<>>
                    THEN <<[name |-> "rejection_log.json", content |-> failed_records]>>
                    ELSE <<>>)
    /\ pc' = "done"
    /\ UNCHANGED <<alpha_rows, beta_list, i, claims, failed_records, eligible, excluded,
                   warnings, crash>>
    /\ UNCHANGED unit_vars

Next == AlphaStep \/ AlphaDone \/ BetaStep \/ BetaDone \/ ClassifyStep \/ Finish

\* run_pipeline on a batch
Spec == Init /\ [][Next]_vars

(* ------------------------------------------------------------------ *)
(* One record through normalize_record and is_eligible_for_resubmission *)
(* ------------------------------------------------------------------ *)

\* what the batch run starts from, and what the single-record run leaves it at
PipeIdle ==
    /\ pc = "idle"
    /\ alpha_rows = <<>>
    /\ beta_list = <<>>
    /\ i = 1
    /\ claims = <<>>
    /\ failed_records = <<>>
    /\ eligible = <<>>
    /\ excluded = <<>>
    /\ warnings = <<>>
    /\ metrics = NoMetrics
    /\ files = <<>>
    /\ crash = ""

\* [primary, alias] values of the two keys a canonical field is read from
Pair(a, b) == [primary |-> a, alias |-> b]

\* claim_id / id, procedure_code / code and the source tag
IdentityInputs ==
    { [claim |-> Pair(StrVal(<<"A", "1">>), Absent),
       proc |-> Pair(IntVal(<<"9", "9", "2", "1", "3">>), Absent), source |-> "alpha"],
      [claim |-> Pair(StrVal(<<" ", "A", "2", " ">>), StrVal(<<"B", "9">>)),
       proc |-> Pair(NaNVal, Absent), source |-> "alpha"],
      [claim |-> Pair(StrVal(<<" ", " ">>), Absent),
       proc |-> Pair(StrVal(<<" ">>), Absent), source |-> "alpha"],
      [claim |-> Pair(Absent, StrVal(<<"B", "1">>)),
       proc |-> Pair(Absent, StrVal(<<"9", "9", "2", "1", "4">>)), source |-> "beta"],
      [claim |-> Pair(Absent, NoneVal),
       proc |-> Pair(NoneVal, StrVal(<<"9", "9", "2", "1", "5">>)), source |-> "beta"],
      [claim |-> Pair(Absent, Absent),
       proc |-> Pair(Absent, Absent), source |-> "beta"] }

\* patient_id / member
PatientInputs ==
    { Pair(StrVal(<<"P", "0", "0", "1">>), Absent),
      Pair(Absent, StrVal(<<" ", "P", "0", "1", "0", " ">>)),
      Pair(Absent, Absent),
      Pair(Absent, NoneVal),
      Pair(NaNVal, Absent) }

\* denial_reason / error_msg
ReasonInputs ==
    { Pair(StrVal(<<"M", "i", "s", "s", "i", "n", "g", " ", "m", "o", "d", "i", "f", "i", "e", "r">>), Absent),
      Pair(StrVal(<<"m", "i", "s", "s", "i", "n", "g", " ", "m", "o", "d", "i", "f", "i", "e", "r">>), Absent),
      Pair(Absent, StrVal(<<"A", "u", "t", "h", "o", "r", "i", "z", "a", "t", "i", "o", "n", " ", "e", "x", "p", "i", "r", "e", "d">>)),
      Pair(Absent, StrVal(<<" ", "I", "n", "c", "o", "r", "r", "e", "c", "t", " ", "P", "r", "o", "c", "e", "d", "u", "r", "e">>)),
      Pair(StrVal(<<"F", "o", "r", "m", " ", "I", "n", "c", "o", "m", "p", "l", "e", "t", "e">>), Absent),
      Pair(StrVal(<<"f", "o", "r", "m", " ", "i", "n", "c", "o", "m", "p", "l", "e", "t", "e", ",", " ", "i", "n", "c", "o", "r", "r", "e", "c", "t", " ", "p", "r", "o", "c", "e", "d", "u", "r", "e">>), Absent),
      Pair(Absent, StrVal(<<"N", "o", "t", " ", "b", "i", "l", "l", "a", "b", "l", "e">>)),
      Pair(Absent, NoneVal),
      Pair(StrVal(<<" ">>), Absent) }

\* status
StatusInputs ==
    { StrVal(<<"d", "e", "n", "i", "e", "d">>), StrVal(<<" ", "D", "E", "N", "I", "E", "D", " ">>), StrVal(<<"a", "p", "p", "r", "o", "v", "e", "d">>), NaNVal, Absent,
      ListVal(<<"[", "'", "d", "e", "n", "i", "e", "d", "'", ",", " ", "'", "l", "a", "t", "e", "'", "]">>) }

\* submitted_at / date
DateInputs ==
    { Pair(StrVal(<<"2", "0", "2", "5", "-", "0", "7", "-", "2", "2">>), Absent),
      Pair(StrVal(<<"2", "0", "2", "5", "-", "0", "7", "-", "2", "3">>), Absent),
      Pair(Absent, StrVal(<<"2", "0", "2", "5", "-", "0", "7", "-", "2", "5", "T", "1", "0", ":", "3", "0", ":", "0", "0", "Z">>)),
      Pair(Absent, StrVal(<<"2", "0", "2", "4", "-", "0", "2", "-", "2", "9", "T", "0", "0", ":", "0", "0", ":", "0", "0">>)),
      Pair(StrVal(<<"2", "0", "2", "5", "-", "7", "-", "1">>), Absent),
      Pair(StrVal(<<"0", "7", "/", "0", "1", "/", "2", "0", "2", "5">>), Absent),
      Pair(Absent, StrVal(<<"T", "u", "e", "s", "d", "a", "y">>)),
      Pair(StrVal(<<"2", "0", "2", "5", "-", "0", "2", "-", "3", "0">>), Absent),
      Pair(Absent, Absent),
      Pair(NaNVal, Absent),
      Pair(Absent, IntVal(<<"2", "0", "2", "5", "0", "7", "0", "1">>)) }

\* the reference dates: the default, and one in the next month
TodayInputs == {DefaultToday, [ok |-> TRUE, y |-> 2025, m |-> 8, d |-> 1]}

\* the raw record with the given values under its keys
RawRecord(ident, patient, reason, status, date) ==
    [dict |-> TRUE,
     f |-> [NoKeys EXCEPT !["claim_id"] = ident.claim.primary,
                          !["id"] = ident.claim.alias,
                          !["procedure_code"] = ident.proc.primary,
                          !["code"] = ident.proc.alias,
                          !["patient_id"] = patient.primary,
                          !["member"] = patient.alias,
                          !["denial_reason"] = reason.primary,
                          !["error_msg"] = reason.alias,
                          !["status"] = status,
                          !["submitted_at"] = date.primary,
                          !["date"] = date.alias]]

\* a normalized claim read as a record: its seven keys, each holding its value
AsRecord(claim) ==
    [dict |-> TRUE,
     f |-> [NoKeys EXCEPT !["claim_id"] = StrVal(claim.claim_id),
                          !["patient_id"] = StrVal(claim.patient_id),
                          !["procedure_code"] = StrVal(claim.procedure_code),
                          !["denial_reason"] = StrVal(claim.denial_reason),
                          !["status"] = StrVal(claim.status),
                          !["submitted_at"] = claim.submitted_at]]

InitUnit ==
    /\ \E ident \in IdentityInputs, patient \in PatientInputs, reason \in ReasonInputs,
          status \in StatusInputs, date \in DateInputs :
          /\ u_record = RawRecord(ident, patient, reason, status, date)
          /\ u_source = ident.source
    /\ u_today \in TodayInputs
    /\ u_pc = "start"
    /\ u_norm = Raised("")
    /\ u_verdict = VerdictRaised("")
    /\ u_again = Raised("")
    /\ PipeIdle

\* normalize_record(u_record, u_source)
Normalize ==
    /\ u_pc = "start"
    /\ u_norm' = normalize_record(u_record, u_source)
    /\ u_pc' = IF u_norm'.raised THEN "failed" ELSE "normalized"
    /\ UNCHANGED <<u_record, u_source, u_today, u_verdict, u_again>>
    /\ UNCHANGED pipe_vars

\* is_eligible_for_resubmission(claim, u_today) on the normalized claim
Classify ==
    /\ u_pc = "normalized"
    /\ u_verdict' = is_eligible_for_resubmission(u_norm.claim, u_today)
    /\ u_pc' = "classified"
    /\ UNCHANGED <<u_record, u_source, u_today, u_norm, u_again>>
    /\ UNCHANGED pipe_vars

\* normalize_record on the normalized claim
Renormalize ==
    /\ u_pc = "classified"
    /\ u_again' = normalize_record(AsRecord(u_norm.claim), u_source)
    /\ u_pc' = "renormalized"
    /\ UNCHANGED <<u_record, u_source, u_today, u_norm, u_verdict>>
    /\ UNCHANGED pipe_vars

NextUnit == Normalize \/ Classify \/ Renormalize

\* one record, normalized, classified, normalized again
SpecUnit == InitUnit /\ [][NextUnit]_vars

(* ------------------------------------------------------------------ *)
(* Properties                                                          *)
(* ------------------------------------------------------------------ *)

\* s has the shape pat: "d" in pat stands for a digit, any other character for itself
Matches(s, pat) ==
    /\ Len(s) = Len(pat)
    /\ \A k \in 1..Len(pat) : IF pat[k] = "d" THEN IsDigit(s[k]) ELSE s[k] = pat[k]

\* an ISO calendar-date string, YYYY-MM-DD
IsoCalendarDate(v) == v.t = "str" /\ Matches(v.s, <<"d", "d", "d", "d", "-", "d", "d", "-", "d", "d">>)

\* the shapes of a bare date that the format %Y-%m-%d reads
BareDateShapes == {<<"d", "d", "d", "d", "-", "d", "d", "-", "d", "d">>, <<"d", "d", "d", "d", "-", "d", "-", "d", "d">>, <<"d", "d", "d", "d", "-", "d", "d", "-", "d">>, <<"d", "d", "d", "d", "-", "d", "-", "d">>}

\* the shapes of an ISO-8601 timestamp with T
TimestampShapes ==
    {<<"d", "d", "d", "d", "-", "d", "d", "-", "d", "d", "T", "d", "d", ":", "d", "d">>, <<"d", "d", "d", "d", "-", "d", "d", "-", "d", "d", "T", "d", "d", ":", "d", "d", ":", "d", "d">>, <<"d", "d", "d", "d", "-", "d", "d", "-", "d", "d", "T", "d", "d", ":", "d", "d", ":", "d", "d", "Z">>,
     <<"d", "d", "d", "d", "-", "d", "d", "-", "d", "d", "T", "d", "d", ":", "d", "d", ":", "d", "d", "+", "d", "d", ":", "d", "d">>, <<"d", "d", "d", "d", "-", "d", "d", "-", "d", "d", "T", "d", "d", ":", "d", "d", ":", "d", "d", "-", "d", "d", ":", "d", "d">>}

\* the raw date of a record: the value under submitted_at, else the one under date
RawDate(record) ==
    IF Truthy(Get(record.f, "submitted_at")) THEN Get(record.f, "submitted_at")
    ELSE Get(record.f, "date")

\* a date string in an unrecognized format
UnrecognizedFormat(v) ==
    /\ v.t = "str"
    /\ v.s # <<>>
    /\ \A pat \in BareDateShapes \cup TimestampShapes : ~Matches(v.s, pat)

\* the single-record run has normalized its record, and normalize_record returned
Normalized == u_pc \in {"normalized", "classified", "renormalized"}

\* the single-record run has classified its claim
Classified == u_pc \in {"classified", "renormalized"}

\* the verdict is (flag, reason)
VerdictIs(v, flag, reason) == ~v.raised /\ v.eligible = flag /\ v.reason = reason

\* a claim as section 3 of the spec types it: the date is null or YYYY-MM-DD
WellFormed(claim) ==
    \/ claim.submitted_at = NoneVal
    \/ IsoCalendarDate(claim.submitted_at) /\ IsoDatePart(claim.submitted_at.s).ok

\* reference date minus submitted date, in days, for a claim with a date
DaysAgo(claim, today) == Ordinal(today) - Ordinal(IsoDatePart(claim.submitted_at.s))

\* the condition of rule n of the cascade
RuleHolds(n, claim, today) ==
    CASE n = 1 -> claim.status # Denied
      [] n = 2 -> claim.patient_id = Unknown
      [] n = 3 -> claim.submitted_at = NoneVal
      [] n = 4 -> claim.submitted_at # NoneVal /\ DaysAgo(claim, today) <= 7
      [] n = 5 -> claim.denial_reason \in retryable_reasons
      [] n = 6 -> claim.denial_reason \in non_retryable_reasons
      [] n = 7 -> TRUE

\* the fallback of rule 7, as the spec words it
InferredEligible(reason) ==
    /\ Contains(Lower(reason), FormIncomplete)
    /\ ~Contains(Lower(reason), IncorrectProcedure)

\* the (flag, reason) of rule n
RuleVerdict(n, claim) ==
    CASE n = 1 -> <<FALSE, ReasonNotDenied>>
      [] n = 2 -> <<FALSE, ReasonPatientNull>>
      [] n = 3 -> <<FALSE, ReasonInvalidDate>>
      [] n = 4 -> <<FALSE, ReasonTooRecent>>
      [] n = 5 -> <<TRUE, claim.denial_reason>>
      [] n = 6 -> <<FALSE, claim.denial_reason>>
      [] n = 7 -> IF InferredEligible(claim.denial_reason)
                  THEN <<TRUE, InferredRetryable \o claim.denial_reason>>
                  ELSE <<FALSE, InferredNonRetryable \o claim.denial_reason>>

\* the lowest-numbered rule whose condition holds
FirstRule(claim, today) ==
    CHOOSE n \in 1..7 :
        /\ RuleHolds(n, claim, today)
        /\ \A k \in 1..(n - 1) : ~RuleHolds(k, claim, today)

\* C1: for every well-formed normalized claim and every reference date the
\* classifier returns the (flag, reason) of the lowest-numbered rule among
\* rules 1-7 whose condition holds; 7 days ago is ineligible by rule 4, and
\* 8 days ago goes on to the reason rules.
C1_OrderedDecisionList ==
    (Classified /\ WellFormed(u_norm.claim)) =>
        LET claim == u_norm.claim
            n == FirstRule(claim, u_today)
        IN  /\ VerdictIs(u_verdict, RuleVerdict(n, claim)[1], RuleVerdict(n, claim)[2])
            /\ (claim.submitted_at # NoneVal /\ DaysAgo(claim, u_today) = 7 => n <= 4)
            /\ (n <= 3 \/ DaysAgo(claim, u_today) >= 8 => n # 4)

\* a denied claim with an unknown patient and a null date gets the reason of rule 2
C1_Witness ==
    /\ Classified
    /\ u_norm.claim.status = Denied
    /\ u_norm.claim.patient_id = Unknown
    /\ u_norm.claim.submitted_at = NoneVal
    /\ VerdictIs(u_verdict, FALSE, ReasonPatientNull)

\* C3: the classifier returns a verdict for every claim normalize_record
\* returned, so the classification loop of run_pipeline never aborts.
C3_ClassifierNeverRaises == pc # "crashed"

\* the items of the batch in the order run_pipeline reads them, each with its tag
BatchItems ==
    [k \in 1..Len(alpha_rows) |-> [source |-> "alpha", record |-> alpha_rows[k]]]
    \o [k \in 1..Len(beta_list) |-> [source |-> "beta", record |-> beta_list[k]]]

\* how many items of the batch the normalization loops have been through
ItemsRead ==
    CASE pc = "alpha" -> i - 1
      [] pc = "beta"  -> Len(alpha_rows) + i - 1
      [] OTHER        -> Len(alpha_rows) + Len(beta_list)

\* item k of the batch makes normalize_record raise
Fails(k) == normalize_record(BatchItems[k].record, BatchItems[k].source).raised

RECURSIVE OutcomesAmong(_, _)
\* of the first n of items: the failure entries of those on which
\* normalize_record raises, and the claims of the others, each in order
OutcomesAmong(items, n) ==
    IF n = 0 THEN [failed |-> <<>>, kept |-> <<>>]
    ELSE LET it == items[n]
             got == normalize_record(it.record, it.source)
             before == OutcomesAmong(items, n - 1)
         IN  IF got.raised
             THEN [failed |-> Append(before.failed,
                                     [source |-> it.source, record |-> it.record,
                                      error |-> got.error]),
                   kept |-> before.kept]
             ELSE [failed |-> before.failed, kept |-> Append(before.kept, got.claim)]

RECURSIVE KeptAmong(_)
\* the positions in the batch of the first n items' claims, in order
KeptAmong(n) ==
    IF n = 0 THEN <<>>
    ELSE KeptAmong(n - 1) \o (IF Fails(n) THEN <<>> ELSE <<n>>)

\* the raw record claims[j] was made from
RecordOf(j) == BatchItems[KeptAmong(ItemsRead)[j]].record

\* the claims the classification loop has been through
ClaimsClassified == IF pc \in {"classify", "crashed"} THEN i - 1
                    ELSE IF pc = "done" THEN Len(claims) ELSE 0

\* C4: a record on which normalize_record raises is appended once to
\* failed_records with its source tag, the raw record and the error message,
\* gives no row of eligible or excluded, and every other record of the batch,
\* before or after it and of either source, is normalized and is in the list
\* handed to classification.
C4_FailureIsolated ==
    /\ pc \in {"alpha", "beta", "classify", "done", "crashed"}
    /\ LET expected == OutcomesAmong(BatchItems, ItemsRead)
       IN  failed_records = expected.failed /\ claims = expected.kept
    /\ Len(eligible) + Len(excluded) = ClaimsClassified
    /\ \A k \in 1..Len(eligible) : \E j \in 1..ClaimsClassified :
          /\ eligible[k].claim_id = claims[j].claim_id
          /\ eligible[k].source_system = claims[j].source_system
    /\ \A k \in 1..Len(excluded) : \E j \in 1..ClaimsClassified :
          /\ excluded[k].claim_id = claims[j].claim_id
          /\ excluded[k].source_system = claims[j].source_system

\* a finished batch whose first beta item failed, with a record before it and
\* one after it both normalized and classified
C4_Witness ==
    /\ pc = "done"
    /\ Len(alpha_rows) = 1
    /\ Len(beta_list) = 2
    /\ Fails(2)
    /\ ~Fails(3)
    /\ Len(failed_records) = 1
    /\ failed_records[1].record = beta_list[1]
    /\ Len(claims) = 2
    /\ Len(eligible) + Len(excluded) = 2

\* the reason the cascade gives a claim whose date is null
NullDateReason(claim) ==
    IF claim.status # Denied THEN ReasonNotDenied
    ELSE IF claim.patient_id = Unknown THEN ReasonPatientNull
    ELSE ReasonInvalidDate

NonNull(v) == v.t \notin {"absent", "none", "nan"}

\* no non-null value under patient_id nor under member
PatientMissing(record) ==
    ~NonNull(record.f["patient_id"]) /\ ~NonNull(record.f["member"])

\* C2: a record with no non-null patient_id and no non-null member is, after
\* normalize_record and is_eligible_for_resubmission, excluded with reason
\* "Patient ID is null".  Stated for the claims whose status is "denied": for
\* the others rule 1 of the cascade answers first.
C2_MissingPatientIsNull ==
    \A j \in 1..ClaimsClassified :
        (PatientMissing(RecordOf(j)) /\ claims[j].status = Denied) =>
            /\ \E k \in 1..Len(excluded) :
                  /\ excluded[k].claim_id = claims[j].claim_id
                  /\ excluded[k].source_system = claims[j].source_system
                  /\ excluded[k].exclusion_reason = ReasonPatientNull
            /\ \A k \in 1..Len(eligible) : eligible[k].claim_id # claims[j].claim_id

\* the source date is absent: no key, null or NaN
DateAbsent(record) == ~NonNull(record.f["submitted_at"]) /\ ~NonNull(record.f["date"])

\* C6: whenever normalize_record returns, submitted_at is null or a YYYY-MM-DD
\* string, and it is null when the source date is absent, whatever its type.
C6_DateNullOrIso ==
    \A j \in 1..Len(claims) :
        /\ claims[j].submitted_at = NoneVal \/ IsoCalendarDate(claims[j].submitted_at)
        /\ DateAbsent(RecordOf(j)) => claims[j].submitted_at = NoneVal

\* the field resolution of the spec: the primary key, else the alias, else "unknown"
Resolved(record, primary, alias) ==
    IF NonNull(record.f[primary]) THEN Strip(Str(record.f[primary]))
    ELSE IF NonNull(record.f[alias]) THEN Strip(Str(record.f[alias]))
    ELSE Unknown

\* C7: each of claim_id, patient_id, procedure_code and denial_reason is the
\* trimmed value of its primary key, else of its alias (id, member, code,
\* error_msg), else "unknown"; claim_id is never empty; source_system is the
\* tag the caller passed.
C7_FieldResolution ==
    \A j \in 1..Len(claims) :
        LET record == RecordOf(j)
        IN  /\ claims[j].claim_id = Resolved(record, "claim_id", "id")
            /\ claims[j].patient_id = Resolved(record, "patient_id", "member")
            /\ claims[j].procedure_code = Resolved(record, "procedure_code", "code")
            /\ claims[j].denial_reason = Resolved(record, "denial_reason", "error_msg")
            /\ claims[j].claim_id # <<>>
            /\ claims[j].source_system = BatchItems[KeptAmong(ItemsRead)[j]].source

\* C8: normalize_record applied to its own result returns the same claim,
\* field by field.
C8_Idempotent ==
    u_pc = "renormalized" => (~u_again.raised /\ u_again.claim = u_norm.claim)

\* the claim reaches rule 7: denied, known patient, a date more than 7 days
\* before the reference date, a reason in neither fixed set
ReachesFallback(claim, today) ==
    /\ claim.status = Denied
    /\ claim.patient_id # Unknown
    /\ IsoCalendarDate(claim.submitted_at)
    /\ IsoDatePart(claim.submitted_at.s).ok
    /\ DaysAgo(claim, today) > 7
    /\ claim.denial_reason \notin retryable_reasons \cup non_retryable_reasons

\* C9: a claim that reaches rule 7 is eligible exactly when its lower-cased
\* reason contains "form incomplete" and not "incorrect procedure"; the verdict
\* reason is "Inferred retryable: " or "Inferred non-retryable: " followed by
\* the reason as it is in the claim.
C9_FallbackHeuristic ==
    (Classified /\ ReachesFallback(u_norm.claim, u_today)) =>
        LET reason == u_norm.claim.denial_reason
        IN  /\ ~u_verdict.raised
            /\ u_verdict.eligible = InferredEligible(reason)
            /\ u_verdict.reason = (IF u_verdict.eligible THEN InferredRetryable
                                   ELSE InferredNonRetryable) \o reason

\* a reason with both phrases reaches rule 7 and is inferred non-retryable
C9_Witness ==
    /\ Classified
    /\ ReachesFallback(u_norm.claim, u_today)
    /\ Contains(Lower(u_norm.claim.denial_reason), FormIncomplete)
    /\ Contains(Lower(u_norm.claim.denial_reason), IncorrectProcedure)
    /\ ~u_verdict.eligible

\* C10: once run_pipeline has ended, every normalized claim has one row in one
\* of eligible and excluded, so the claims from alpha and from beta add up to
\* the rows of the two lists; and every eligible row is that of a denied claim
\* of a known patient, dated more than 7 days before the reference date, whose
\* reason is retryable or contains "form incomplete".
C10_Conservation ==
    pc \in {"done", "crashed"} =>
        /\ Len(claims) = CountSource(claims, "alpha") + CountSource(claims, "beta")
        /\ Len(claims) = Len(eligible) + Len(excluded)
        /\ \A k \in 1..Len(eligible) : \E j \in 1..Len(claims) :
              /\ eligible[k].claim_id = claims[j].claim_id
              /\ claims[j].status = Denied
              /\ claims[j].patient_id # Unknown
              /\ IsoCalendarDate(claims[j].submitted_at)
              /\ DaysAgo(claims[j], DefaultToday) > 7
              /\ \/ claims[j].denial_reason \in retryable_reasons
                 \/ Contains(Lower(claims[j].denial_reason), FormIncomplete)

====
